---- MODULE Spec2Model ----
(***************************************************************************)
(* Model of the /analyze pipeline of src/app.py (Flask handler analyze()). *)
(*                                                                         *)
(* Strings are sequences of one-character strings.  A float is modelled    *)
(* exactly: a duration is an integer number of seconds and wpm is an       *)
(* integer number of hundredths (round(x, 2) * 100).  The created_at       *)
(* timestamp of a row is left out.  An exception that leaves the handler   *)
(* is the 500 response Flask makes of it, tagged with the exception name.  *)
(***************************************************************************)
EXTENDS Integers, Sequences, FiniteSets

(* ------------------------------ bounds -------------------------------- *)
\* requests received in one behaviour of Spec
MaxRequests == 2
\* longest generated transcript (SpecFn)
MaxLen == 3
\* largest duration, in seconds, a request carries (SpecFn)
MaxDuration == 10

\* two workers serve requests concurrently
Workers == {1, 2}

(* ------------------------------ strings ------------------------------- *)
UpperCase == <<"A", "B", "C", "D", "E", "F", "G", "H", "I", "J", "K", "L", "M",
               "N", "O", "P", "Q", "R", "S", "T", "U", "V", "W", "X", "Y", "Z">>
LowerCase == <<"a", "b", "c", "d", "e", "f", "g", "h", "i", "j", "k", "l", "m",
               "n", "o", "p", "q", "r", "s", "t", "u", "v", "w", "x", "y", "z">>

\* str.lower() on one character
LowerChar(c) ==
    IF \E i \in 1..Len(UpperCase) : UpperCase[i] = c
    THEN LowerCase[CHOOSE i \in 1..Len(UpperCase) : UpperCase[i] = c]
    ELSE c

\* transcript.lower()
Lower(s) == [i \in 1..Len(s) |-> LowerChar(s[i])]

\* the characters str.split() splits on (the alphabets hold no other whitespace)
IsSpace(c) == c = " "

\* index of the first character of s that is a space, Len(s)+1 if none
FirstSpace(s) ==
    IF \E i \in 1..Len(s) : IsSpace(s[i])
    THEN CHOOSE i \in 1..Len(s) : IsSpace(s[i]) /\ \A j \in 1..(i-1) : ~IsSpace(s[j])
    ELSE Len(s) + 1

\* transcript.split(): the maximal runs of non-space characters
RECURSIVE Tokens(_)
Tokens(s) ==
    IF s = <<>> THEN <<>>
    ELSE IF IsSpace(Head(s)) THEN Tokens(Tail(s))
    ELSE LET n == FirstSpace(s)
         IN  <<SubSeq(s, 1, n - 1)>> \o Tokens(SubSeq(s, n, Len(s)))

\* w in text (Python substring test)
Contains(text, w) ==
    \E i \in 1..(Len(text) - Len(w) + 1) : SubSeq(text, i, i + Len(w) - 1) = w

\* ",".join(list)
RECURSIVE Join(_)
Join(l) ==
    IF l = <<>> THEN <<>>
    ELSE IF Len(l) = 1 THEN l[1]
    ELSE l[1] \o <<",">> \o Join(Tail(l))

(* ------------------------------ fillers ------------------------------- *)
FILLERS == << <<"u", "m">>,
              <<"u", "h">>,
              <<"l", "i", "k", "e">>,
              <<"y", "o", "u", " ", "k", "n", "o", "w">>,
              <<"s", "o">>,
              <<"a", "c", "t", "u", "a", "l", "l", "y">>,
              <<"b", "a", "s", "i", "c", "a", "l", "l", "y">> >>

\* [w for w in FILLERS if w in transcript.lower()]
DetectFillers(transcript) ==
    SelectSeq(FILLERS, LAMBDA w : Contains(Lower(transcript), w))

(* ------------------------------ metrics ------------------------------- *)
\* the duration form field: absent, not a number, or a number of seconds
FormMissing == [kind |-> "missing", val |-> 0]
FormText    == [kind |-> "text", val |-> 0]
FormNumber(n) == [kind |-> "number", val |-> n]

\* float(request.form.get("duration", 1)): the default is 1 second, a text
\* that is no number raises ValueError
ParseDuration(form) ==
    IF form.kind = "missing" THEN [ok |-> TRUE, val |-> 1]
    ELSE IF form.kind = "text" THEN [ok |-> FALSE, val |-> 0]
    ELSE [ok |-> TRUE, val |-> form.val]

\* a / b rounded to the nearest integer, ties to even (Python 3 round), b > 0
RoundHalfEven(a, b) ==
    LET q == a \div b
        r == a % b
    IN  IF 2 * r < b THEN q
        ELSE IF 2 * r > b THEN q + 1
        ELSE IF q % 2 = 0 THEN q ELSE q + 1

\* a / b cut to an integer instead of rounded
Truncated(a, b) == a \div b

\* the quotient cut after two decimals instead of rounded
WpmTruncated(word_count, seconds) ==
    IF seconds > 0 THEN Truncated(word_count * 6000, seconds)
    ELSE Truncated(-(word_count * 6000), -seconds)

\* round(word_count / (seconds / 60), 2), in hundredths; seconds # 0
Wpm(word_count, seconds) ==
    IF seconds > 0 THEN RoundHalfEven(word_count * 6000, seconds)
    ELSE RoundHalfEven(-(word_count * 6000), -seconds)

\* textstat.flesch_reading_ease(transcript): an opaque value of the text
FleschReadingEase(transcript) == [flesch_of |-> transcript]

(* ------------------------------ inputs -------------------------------- *)
NoAudio == [kind |-> "missing", says |-> <<>>]
Corrupt == [kind |-> "corrupt", says |-> <<>>]
Noise   == [kind |-> "noise", says |-> <<>>]
Speech(t) == [kind |-> "speech", says |-> t]

ThisIsATest == <<"t", "h", "i", "s", " ", "i", "s", " ", "a", " ", "t", "e", "s", "t">>
SoUm        == <<"S", "o", ",", " ", "u", "m">>
Sofia       == <<"S", "o", "f", "i", "a">>
Likely      == <<"l", "i", "k", "e", "l", "y">>
Umbrella    == <<"u", "m", "b", "r", "e", "l", "l", "a">>
YouKnow     == <<"Y", "o", "u", " ", "k", "n", "o", "w">>
ILikeIt     == <<"I", " ", "l", "i", "k", "e", " ", "i", "t", " ", "y", "o", "u", " ",
                 "k", "n", "o", "w">>

Alphabet == {"S", "o", "f", " ", ","}

RECURSIVE StringsOfLen(_)
StringsOfLen(n) ==
    IF n = 0 THEN {<<>>}
    ELSE {<<c>> \o s : c \in Alphabet, s \in StringsOfLen(n - 1)}

\* what the recognizer may answer in SpecFn
Transcripts ==
    {ThisIsATest, SoUm, Sofia, Likely, Umbrella, YouKnow, ILikeIt}
        \cup UNION {StringsOfLen(n) : n \in 1..MaxLen}

\* the duration fields of SpecFn
Forms == {FormMissing, FormText} \cup {FormNumber(n) : n \in (-1)..MaxDuration}

\* the requests of Spec
Uploads == {NoAudio, Corrupt, Noise, Speech(ThisIsATest), Speech(SoUm)}
SomeForms == {FormMissing, FormText, FormNumber(0), FormNumber(10)}

Languages == {"en"}

(* ------------------------------- state -------------------------------- *)
VARIABLES
    pc,      \* pc[w]: where worker w is in analyze()
    req,     \* req[w]: the request worker w serves (request.files, request.form)
    loc,     \* loc[w]: the local variables of worker w's invocation
    resp,    \* resp[w]: the response of worker w's invocation
    file,    \* the file "temp.wav" of the working directory, shared by all workers
    store,   \* the rows of table speech_result, in insertion order
    served,  \* requests received so far
    sent     \* 200 responses sent so far

vars == <<pc, req, loc, resp, file, store, served, sent>>

\* temp.wav does not exist
NoFile == [owner |-> 0, wave |-> NoAudio]

NoRequest == [audio |-> NoAudio, duration |-> FormMissing]
NoResponse == [status |-> 0, body |-> [error |-> ""]]

NoLocals ==
    [audio_data |-> NoFile, exported |-> FALSE, stt |-> "notcalled",
     transcript |-> <<>>, word_count |-> -1, wpm |-> 0,
     score |-> FleschReadingEase(<<>>), llm |-> "notcalled",
     grammar_feedback |-> "", detected_fillers |-> <<>>, lang |-> "", rowid |-> 0]

Init ==
    /\ pc = [w \in Workers |-> "idle"]
    /\ req = [w \in Workers |-> NoRequest]
    /\ loc = [w \in Workers |-> NoLocals]
    /\ resp = [w \in Workers |-> NoResponse]
    /\ file = NoFile
    /\ store = <<>>
    /\ served = 0
    /\ sent = 0

(* ----------------------------- responses ------------------------------ *)
\* jsonify({"error": msg}), 400
Error400(msg) == [status |-> 400, body |-> [error |-> msg]]

\* an exception leaves analyze(): Flask answers 500
Error500(exc) == [status |-> 500, body |-> [raised |-> exc]]

\* the jsonify of the success return
Success(l) ==
    [status |-> 200,
     body |-> [transcript |-> l.transcript, language |-> l.lang,
               word_count |-> l.word_count, wpm |-> l.wpm,
               fluency_score |-> l.score, fillers |-> l.detected_fillers,
               grammar_feedback |-> l.grammar_feedback]]

\* SpeechResult(...): the row, with the id the insert gives it
Row(l, id) ==
    [id |-> id, transcript |-> l.transcript, grammar_feedback |-> l.grammar_feedback,
     fluency_score |-> l.score, word_count |-> l.word_count, wpm |-> l.wpm,
     fillers |-> Join(l.detected_fillers), language |-> l.lang]

\* worker w's invocation ends with response r
Return(w, r) ==
    /\ pc' = [pc EXCEPT ![w] = "done"]
    /\ resp' = [resp EXCEPT ![w] = r]
    /\ sent' = IF r.status = 200 THEN sent + 1 ELSE sent

\* worker w goes on to step p
Goto(w, p) ==
    /\ pc' = [pc EXCEPT ![w] = p]
    /\ UNCHANGED <<resp, sent>>

(* ------------------------------ analyze ------------------------------- *)
\* a request arrives at worker w; no 'audio' part: 400
Receive(w) ==
    /\ pc[w] \in {"idle", "done"}
    /\ served < MaxRequests
    /\ served' = served + 1
    /\ \E a \in Uploads, d \in SomeForms :
          /\ req' = [req EXCEPT ![w] = [audio |-> a, duration |-> d]]
          /\ loc' = [loc EXCEPT ![w] = NoLocals]
          /\ IF a.kind = "missing"
             THEN Return(w, Error400("No audio uploaded"))
             ELSE /\ pc' = [pc EXCEPT ![w] = "decode"]
                  /\ resp' = [resp EXCEPT ![w] = NoResponse]
                  /\ sent' = sent
    /\ UNCHANGED <<file, store>>

\* AudioSegment.from_file(audio_file); audio.export("temp.wav")
Decode(w) ==
    /\ pc[w] = "decode"
    /\ IF req[w].audio.kind = "corrupt"
       THEN /\ Return(w, Error500("CouldntDecodeError"))
            /\ UNCHANGED <<loc, file>>
       ELSE /\ file' = [owner |-> w, wave |-> req[w].audio]
            /\ loc' = [loc EXCEPT ![w].exported = TRUE]
            /\ Goto(w, "record")
    /\ UNCHANGED <<req, store, served>>

\* with sr.AudioFile("temp.wav") as source: audio_data = recognizer.record(source)
Record(w) ==
    /\ pc[w] = "record"
    /\ IF file = NoFile
       THEN /\ Return(w, Error500("FileNotFoundError"))
            /\ UNCHANGED loc
       ELSE /\ loc' = [loc EXCEPT ![w].audio_data = file]
            /\ Goto(w, "recognize")
    /\ UNCHANGED <<req, file, store, served>>

\* Recognize with every exception of the recognizer caught and answered 400
RecognizeCatchAll(w) ==
    /\ pc[w] = "recognize"
    /\ \E reachable \in BOOLEAN :
          IF ~reachable
          THEN /\ loc' = [loc EXCEPT ![w].stt = "unavailable"]
               /\ Return(w, Error400("Speech not recognized"))
          ELSE IF loc[w].audio_data.wave.kind = "noise"
          THEN /\ loc' = [loc EXCEPT ![w].stt = "unknown"]
               /\ Return(w, Error400("Speech not recognized"))
          ELSE /\ loc' = [loc EXCEPT ![w].stt = "ok",
                                     ![w].transcript = loc[w].audio_data.wave.says]
               /\ Goto(w, "remove")
    /\ UNCHANGED <<req, file, store, served>>

\* recognizer.recognize_google(audio_data), inside the with block:
\* UnknownValueError is caught and answered 400, RequestError is not caught
Recognize(w) ==
    /\ pc[w] = "recognize"
    /\ \E reachable \in BOOLEAN :
          IF ~reachable
          THEN /\ loc' = [loc EXCEPT ![w].stt = "unavailable"]
               /\ Return(w, Error500("RequestError"))
          ELSE IF loc[w].audio_data.wave.kind = "noise"
          THEN /\ loc' = [loc EXCEPT ![w].stt = "unknown"]
               /\ Return(w, Error400("Speech not recognized"))
          ELSE /\ loc' = [loc EXCEPT ![w].stt = "ok",
                                     ![w].transcript = loc[w].audio_data.wave.says]
               /\ Goto(w, "remove")
    /\ UNCHANGED <<req, file, store, served>>

\* os.remove("temp.wav")
Remove(w) ==
    /\ pc[w] = "remove"
    /\ IF file = NoFile
       THEN /\ Return(w, Error500("FileNotFoundError"))
            /\ UNCHANGED file
       ELSE /\ file' = NoFile
            /\ Goto(w, "metrics")
    /\ UNCHANGED <<req, loc, store, served>>

\* word_count, duration_minutes, wpm, score
Metrics(w) ==
    /\ pc[w] = "metrics"
    /\ LET wc == Len(Tokens(loc[w].transcript))
           d  == ParseDuration(req[w].duration)
       IN  IF ~d.ok
           THEN /\ loc' = [loc EXCEPT ![w].word_count = wc]
                /\ Return(w, Error500("ValueError"))
           ELSE IF d.val = 0
           THEN /\ loc' = [loc EXCEPT ![w].word_count = wc]
                /\ Return(w, Error500("ZeroDivisionError"))
           ELSE /\ loc' = [loc EXCEPT ![w].word_count = wc,
                                      ![w].wpm = Wpm(wc, d.val),
                                      ![w].score = FleschReadingEase(loc[w].transcript)]
                /\ Goto(w, "feedback")
    /\ UNCHANGED <<req, file, store, served>>

\* grammar_feedback = get_gpt_feedback(transcript): no try around the call
Feedback(w) ==
    /\ pc[w] = "feedback"
    /\ \E available \in BOOLEAN :
          IF ~available
          THEN /\ loc' = [loc EXCEPT ![w].llm = "failed"]
               /\ Return(w, Error500("OpenAIError"))
          ELSE /\ loc' = [loc EXCEPT ![w].llm = "ok",
                                     ![w].grammar_feedback = "feedback"]
               /\ Goto(w, "detect")
    /\ UNCHANGED <<req, file, store, served>>

\* detected_fillers = [...]; lang = detect(transcript)
Detect(w) ==
    /\ pc[w] = "detect"
    /\ \/ /\ loc' = [loc EXCEPT ![w].detected_fillers = DetectFillers(loc[w].transcript)]
          /\ Return(w, Error500("LangDetectException"))
       \/ \E l \in Languages :
             /\ loc' = [loc EXCEPT ![w].detected_fillers = DetectFillers(loc[w].transcript),
                                   ![w].lang = l]
             /\ Goto(w, "commit")
    /\ UNCHANGED <<req, file, store, served>>

\* Commit with a failed commit swallowed: the handler goes on to its return
CommitSwallow(w) ==
    /\ pc[w] = "commit"
    /\ \E stored \in BOOLEAN :
          IF ~stored
          THEN /\ Goto(w, "respond")
               /\ UNCHANGED <<loc, store>>
          ELSE /\ store' = Append(store, Row(loc[w], Len(store) + 1))
               /\ loc' = [loc EXCEPT ![w].rowid = Len(store) + 1]
               /\ Goto(w, "respond")
    /\ UNCHANGED <<req, file, served>>

\* Commit with the row added to the session twice
CommitDuplicate(w) ==
    /\ pc[w] = "commit"
    /\ \E stored \in BOOLEAN :
          IF ~stored
          THEN /\ Return(w, Error500("SQLAlchemyError"))
               /\ UNCHANGED <<loc, store>>
          ELSE /\ store' = store \o <<Row(loc[w], Len(store) + 1),
                                       Row(loc[w], Len(store) + 2)>>
               /\ loc' = [loc EXCEPT ![w].rowid = Len(store) + 1]
               /\ Goto(w, "respond")
    /\ UNCHANGED <<req, file, served>>

\* db.session.add(result); db.session.commit()
Commit(w) ==
    /\ pc[w] = "commit"
    /\ \E stored \in BOOLEAN :
          IF ~stored
          THEN /\ Return(w, Error500("SQLAlchemyError"))
               /\ UNCHANGED <<loc, store>>
          ELSE /\ store' = Append(store, Row(loc[w], Len(store) + 1))
               /\ loc' = [loc EXCEPT ![w].rowid = Len(store) + 1]
               /\ Goto(w, "respond")
    /\ UNCHANGED <<req, file, served>>

\* return jsonify({...})
Respond(w) ==
    /\ pc[w] = "respond"
    /\ Return(w, Success(loc[w]))
    /\ UNCHANGED <<req, loc, file, store, served>>

(* --------------------------- specifications --------------------------- *)
Next ==
    \E w \in Workers :
        \/ Receive(w)
        \/ Decode(w)
        \/ Record(w)
        \/ Recognize(w)
        \/ Remove(w)
        \/ Metrics(w)
        \/ Feedback(w)
        \/ Detect(w)
        \/ Commit(w)
        \/ Respond(w)

\* concurrent workers, each serving one request after another
Spec == Init /\ [][Next]_vars

\* one request with speech in it, of any transcript and any duration field,
\* served alone by worker 1
InitFn ==
    /\ pc = [w \in Workers |-> IF w = 1 THEN "decode" ELSE "idle"]
    /\ \E t \in Transcripts, d \in Forms :
          req = [w \in Workers |->
                    IF w = 1 THEN [audio |-> Speech(t), duration |-> d] ELSE NoRequest]
    /\ loc = [w \in Workers |-> NoLocals]
    /\ resp = [w \in Workers |-> NoResponse]
    /\ file = NoFile
    /\ store = <<>>
    /\ served = 1
    /\ sent = 0

NextFn ==
    \/ Decode(1)
    \/ Record(1)
    \/ Recognize(1)
    \/ Remove(1)
    \/ Metrics(1)
    \/ Feedback(1)
    \/ Detect(1)
    \/ Commit(1)
    \/ Respond(1)

SpecFn == InitFn /\ [][NextFn]_vars

(* ------------------------------- claims ------------------------------- *)
\* worker w's invocation has ended
Ended(w) == pc[w] = "done"

\* C1: when an invocation that wrote temp.wav ends, the file it wrote is gone,
\* whatever the exit path (success, speech not recognized, exception).
TempFileAbsentAtExit ==
    \A w \in Workers : (Ended(w) /\ loc[w].exported) => file.owner # w

\* a duration field that is a number above zero
ValidDuration(form) == form.kind = "number" /\ form.val > 0

\* C2: a request that reaches the metrics with a duration field that is zero,
\* negative, missing or no number ends in 400 "Invalid or zero duration", with
\* no row stored.
InvalidDurationRejected ==
    \A w \in Workers :
        (Ended(w) /\ loc[w].word_count >= 0 /\ ~ValidDuration(req[w].duration))
            => (resp[w] = Error400("Invalid or zero duration") /\ loc[w].rowid = 0)

\* the response of w carries the fields of row r
Carries(w, r) ==
    LET b == resp[w].body
    IN  /\ b.transcript = r.transcript
        /\ b.language = r.language
        /\ b.word_count = r.word_count
        /\ b.wpm = r.wpm
        /\ b.fluency_score = r.fluency_score
        /\ b.grammar_feedback = r.grammar_feedback

\* C3: a 200 response is returned exactly when the invocation committed its
\* row: a 200 is never sent before or without the commit and carries the
\* committed row's fields, and an invocation that committed nothing ends in
\* an error response.
SuccessIffCommitted ==
    \A w \in Workers :
        /\ resp[w].status = 200 =>
              /\ loc[w].rowid \in 1..Len(store)
              /\ Carries(w, store[loc[w].rowid])
        /\ Ended(w) =>
              /\ (resp[w].status = 200) <=> (loc[w].rowid # 0)
              /\ resp[w].status \in {200, 400, 500}

SuccessIffCommittedWitness ==
    \E w, v \in Workers :
        /\ Ended(w) /\ resp[w].status = 200
        /\ Ended(v) /\ resp[v] = Error500("SQLAlchemyError")

\* C4: when the feedback call fails, the invocation still ends in a 200.
FeedbackFailureDegrades ==
    \A w \in Workers : (Ended(w) /\ loc[w].llm = "failed") => resp[w].status = 200

\* C5: every request transcribes the waveform of its own upload, finds its
\* temp file where it left it, and between its export and its remove the file
\* holds what it exported.
RequestsDoNotInterfere ==
    \A w \in Workers :
        /\ loc[w].audio_data # NoFile => loc[w].audio_data.owner = w
        /\ resp[w] # Error500("FileNotFoundError")
        /\ pc[w] \in {"record", "recognize", "remove"} => file.owner = w

\* C6: audio the recognizer cannot understand ends in 400 "Speech not
\* recognized", a recognizer that cannot be reached ends in a 500, and
\* neither stores a row.
TranscriptionFailuresMapped ==
    \A w \in Workers :
        Ended(w) =>
            /\ loc[w].stt = "unknown" =>
                  (resp[w] = Error400("Speech not recognized") /\ loc[w].rowid = 0)
            /\ loc[w].stt = "unavailable" =>
                  (resp[w].status = 500 /\ loc[w].rowid = 0)

TranscriptionFailuresMappedWitness ==
    \E w, v \in Workers :
        /\ Ended(w) /\ loc[w].stt = "unknown"
        /\ Ended(v) /\ loc[v].stt = "unavailable"

\* the rows committed whose 200 has not been sent yet
Unanswered == {w \in Workers : pc[w] = "respond"}

\* C7: the store only grows, by one row at a time and at its end; its length
\* is the number of successes (sent, or committed and about to be sent); and
\* an invocation that ends in an error response has stored no row.
StoreMatchesSuccesses ==
    [][ /\ \/ store' = store
           \/ /\ Len(store') = Len(store) + 1
              /\ SubSeq(store', 1, Len(store)) = store
        /\ Len(store') = sent' + Cardinality(Unanswered')
        /\ \A w \in Workers :
              (pc[w] # "done" /\ pc'[w] = "done") =>
                  IF resp'[w].status = 200
                  THEN /\ loc'[w].rowid \in 1..Len(store')
                       /\ \A v \in Workers \ {w} : loc'[v].rowid # loc'[w].rowid
                  ELSE loc'[w].rowid = 0 /\ store' = store
      ]_vars

StoreMatchesSuccessesWitness ==
    /\ Len(store) = 1
    /\ sent = 1
    /\ \E w \in Workers : Ended(w) /\ resp[w].status \in {400, 500} /\ loc[w].exported

\* a letter (the alphabets of the model hold no digit and no underscore)
IsWordChar(c) == \E i \in 1..Len(LowerCase) : LowerCase[i] = LowerChar(c)

\* f occurs in text between word boundaries, whatever the case
WholeWord(text, f) ==
    \E i \in 1..(Len(text) - Len(f) + 1) :
        /\ SubSeq(Lower(text), i, i + Len(f) - 1) = f
        /\ i = 1 \/ ~IsWordChar(text[i - 1])
        /\ i + Len(f) - 1 = Len(text) \/ ~IsWordChar(text[i + Len(f)])

\* x is an element of sequence l
InSeq(x, l) == \E i \in 1..Len(l) : l[i] = x

\* C8: a filler is reported exactly when it occurs in the transcript as a
\* whole word, whatever the case.
FillersAreWholeWords ==
    \A w \in Workers :
        resp[w].status = 200 =>
            \A i \in 1..Len(FILLERS) :
                InSeq(FILLERS[i], resp[w].body.fillers)
                    <=> WholeWord(resp[w].body.transcript, FILLERS[i])

\* s.split(sep) of Python, for a separator of one character
RECURSIVE SplitOn(_, _)
SplitOn(s, sep) ==
    IF \E i \in 1..Len(s) : s[i] = sep
    THEN LET i == CHOOSE k \in 1..Len(s) : s[k] = sep /\ \A j \in 1..(k-1) : s[j] # sep
         IN  <<SubSeq(s, 1, i - 1)>> \o SplitOn(SubSeq(s, i + 1, Len(s)), sep)
    ELSE <<s>>

\* C9: the fillers column of the stored row, split on comma, is the fillers
\* array of the response.
FillersRoundTrip ==
    \A w \in Workers :
        resp[w].status = 200 =>
            SplitOn(store[loc[w].rowid].fillers, ",") = resp[w].body.fillers

\* the number of positions of s where a whitespace-delimited token starts
TokenStarts(s) ==
    Cardinality({i \in 1..Len(s) : ~IsSpace(s[i]) /\ (i = 1 \/ IsSpace(s[i - 1]))})

\* C10: for a positive duration d, word_count is the number of
\* whitespace-delimited tokens of the transcript, wpm is a hundredth nearest
\* to word_count / (d / 60) ("this is a test" in 10 s: 4 words, 24.00), and
\* the stored row holds the same two values.
MetricsAsSpecified ==
    \A w \in Workers :
        (resp[w].status = 200 /\ ValidDuration(req[w].duration)) =>
            LET b == resp[w].body
                d == req[w].duration.val
                e == b.wpm * d - 6000 * b.word_count
            IN  /\ b.word_count = TokenStarts(b.transcript)
                /\ 2 * e <= d /\ -(2 * e) <= d
                /\ store[loc[w].rowid].word_count = b.word_count
                /\ store[loc[w].rowid].wpm = b.wpm
                /\ (b.transcript = ThisIsATest /\ d = 10) =>
                      (b.word_count = 4 /\ b.wpm = 2400)

MetricsAsSpecifiedWitness ==
    \E w \in Workers :
        /\ resp[w].status = 200
        /\ resp[w].body.transcript = ThisIsATest
        /\ req[w].duration = FormNumber(10)

====
